---- MODULE Spec2Model ----
(***************************************************************************)
(* Model of SplayTreeImpl (src/SplayTree/SplayTree.ts).                    *)
(*                                                                         *)
(* The heap of Node objects is modelled by four functions over node        *)
(* identities 1..N (data, left, right, parent); the identity 0 is null.    *)
(* Nodes are never freed: a node removed by delete stays in the heap and   *)
(* keeps its links, exactly as the JavaScript object does while something  *)
(* still references it.                                                    *)
(*                                                                         *)
(* Every method is an operator from a tree record to a tree record.  A     *)
(* method that never returns (a loop whose state repeats, or a recursion   *)
(* over a cyclic structure) yields a record with st # "ok".                *)
(***************************************************************************)
EXTENDS Integers, Sequences, FiniteSets, TLC

\* ---------------------------------------------------------------- bounds
MaxKey == 3
MaxAlloc == 4
MaxOps == 7
MaxTail == 3
MaxPrimOps == 5
\* the test fixture initTree() inserts 1..10
AscN == 10

Null == 0
NodeCap == IF MaxAlloc > AscN + MaxTail THEN MaxAlloc ELSE AscN + MaxTail
Nodes == 1..NodeCap
Keys == 1..MaxKey
AscKeys == 1..(AscN + 1)

VARIABLES root, data, left, right, parent, nalloc, status, keys, op, pre, calls

vars == <<root, data, left, right, parent, nalloc, status, keys, op, pre, calls>>

\* the tree object together with the heap it points into
Tree == [root |-> root, data |-> data, left |-> left, right |-> right,
         parent |-> parent, nalloc |-> nalloc, st |-> status]

EmptyTree == [root |-> Null,
              data |-> [n \in Nodes |-> 0],
              left |-> [n \in Nodes |-> Null],
              right |-> [n \in Nodes |-> Null],
              parent |-> [n \in Nodes |-> Null],
              nalloc |-> 0,
              st |-> "ok"]

Hang(t) == [t EXCEPT !.st = "hang"]
Overflow(t) == [t EXCEPT !.st = "overflow"]

\* ------------------------------------------------------------- rotations
leftRotate(t, node) ==
    LET newParent == t.right[node]
        t1 == IF newParent # Null
              THEN LET a == [t EXCEPT !.right[node] = t.left[newParent]]
                       b == IF a.left[newParent] # Null
                            THEN [a EXCEPT !.parent[a.left[newParent]] = node]
                            ELSE a
                   IN [b EXCEPT !.parent[newParent] = b.parent[node]]
              ELSE t
        t2 == IF t1.parent[node] = Null
              THEN [t1 EXCEPT !.root = newParent]
              ELSE IF node = t1.left[t1.parent[node]]
                   THEN [t1 EXCEPT !.left[t1.parent[node]] = newParent]
                   ELSE [t1 EXCEPT !.right[t1.parent[node]] = newParent]
    IN IF newParent # Null
       THEN LET c == [t2 EXCEPT !.left[newParent] = node]
            IN [c EXCEPT !.parent[node] = newParent]
       ELSE t2

rightRotate(t, node) ==
    LET newParent == t.left[node]
        t1 == IF newParent # Null
              THEN LET a == [t EXCEPT !.left[node] = t.left[newParent]]
                       b == IF a.right[newParent] # Null
                            THEN [a EXCEPT !.parent[a.right[newParent]] = node]
                            ELSE a
                   IN [b EXCEPT !.parent[newParent] = b.parent[node]]
              ELSE t
        t2 == IF t1.parent[node] = Null
              THEN [t1 EXCEPT !.root = newParent]
              ELSE IF node = t1.right[t1.parent[node]]
                   THEN [t1 EXCEPT !.right[t1.parent[node]] = newParent]
                   ELSE [t1 EXCEPT !.left[t1.parent[node]] = newParent]
    IN IF newParent # Null
       THEN LET c == [t2 EXCEPT !.right[newParent] = node]
            IN [c EXCEPT !.parent[node] = newParent]
       ELSE t2

\* ----------------------------------------------------------------- splay
\* one iteration of the while loop of splay; rt is the root captured on entry
splayStep(t, node, rt) ==
    IF t.parent[node] = rt
    THEN IF node = t.left[rt] THEN rightRotate(t, rt) ELSE leftRotate(t, rt)
    ELSE LET p == t.parent[node]
             g == IF p # Null THEN t.parent[p] ELSE Null
         IN IF p # Null /\ g # Null /\ p = t.left[g]
            THEN IF node = t.left[p]
                 THEN rightRotate(rightRotate(t, g), p)
                 ELSE rightRotate(leftRotate(t, p), g)
            ELSE IF p # Null /\ g # Null /\ p = t.right[g]
                 THEN IF node = t.right[p]
                      THEN leftRotate(leftRotate(t, g), p)
                      ELSE leftRotate(rightRotate(t, p), g)
                 ELSE t

\* the while loop: it never ends exactly when a heap it has been in recurs
RECURSIVE splayLoop(_, _, _, _)
splayLoop(t, node, rt, seen) ==
    IF t.root = node THEN t
    ELSE IF t \in seen THEN Hang(t)
    ELSE splayLoop(splayStep(t, node, rt), node, rt, seen \cup {t})

splay(t, node) ==
    IF t.st # "ok" THEN t
    ELSE IF t.root = Null THEN t
    ELSE splayLoop(t, node, t.root, {})

\* ---------------------------------------------------------------- search
\* the descent of search: the node found, Null, or -1 when it never ends
RECURSIVE searchLoop(_, _, _, _)
searchLoop(t, node, k, fuel) ==
    IF node = Null THEN Null
    ELSE IF fuel = 0 THEN -1
    ELSE IF t.data[node] = k THEN node
    ELSE IF t.data[node] > k THEN searchLoop(t, t.left[node], k, fuel - 1)
    ELSE searchLoop(t, t.right[node], k, fuel - 1)

\* a search that splays the node it finds
search_splayOnHit(t, k) ==
    IF t.st # "ok" THEN [t |-> t, ret |-> Null]
    ELSE LET r == searchLoop(t, t.root, k, NodeCap + 1)
         IN IF r = -1 THEN [t |-> Hang(t), ret |-> Null]
            ELSE IF r # Null THEN [t |-> splay(t, r), ret |-> r]
            ELSE [t |-> t, ret |-> Null]

search(t, k) ==
    IF t.st # "ok" THEN [t |-> t, ret |-> Null]
    ELSE LET r == searchLoop(t, t.root, k, NodeCap + 1)
         IN IF r = -1 THEN [t |-> Hang(t), ret |-> Null]
            ELSE [t |-> t, ret |-> r]

\* ----------------------------------------------------- findMax / findMin
RECURSIVE findMaxRec(_, _, _)
findMaxRec(t, node, fuel) ==
    IF fuel = 0 THEN -1
    ELSE IF t.right[node] = Null THEN node
    ELSE findMaxRec(t, t.right[node], fuel - 1)

findMax(t, node) == findMaxRec(t, node, NodeCap + 1)

RECURSIVE findMinRec(_, _, _)
findMinRec(t, node, fuel) ==
    IF fuel = 0 THEN -1
    ELSE IF t.left[node] = Null THEN node
    ELSE findMinRec(t, t.left[node], fuel - 1)

findMin(t, node) == findMinRec(t, node, NodeCap + 1)

\* ---------------------------------------------------------------- insert
\* the descent of insert: the last node visited, or -1 when it never ends
RECURSIVE insertLoop(_, _, _, _, _)
insertLoop(t, current, par, k, fuel) ==
    IF current = Null THEN par
    ELSE IF fuel = 0 THEN -1
    ELSE IF k < t.data[current]
         THEN insertLoop(t, t.left[current], current, k, fuel - 1)
         ELSE insertLoop(t, t.right[current], current, k, fuel - 1)

insert(t, k) ==
    LET s == search(t, k) IN
    IF s.t.st # "ok" THEN s.t
    ELSE IF s.ret # Null THEN splay(s.t, s.ret)
    ELSE LET newNode == s.t.nalloc + 1
             a == [s.t EXCEPT !.nalloc = newNode, !.data[newNode] = k,
                              !.left[newNode] = Null, !.right[newNode] = Null,
                              !.parent[newNode] = Null]
         IN IF a.root = Null THEN [a EXCEPT !.root = newNode]
            ELSE LET par == insertLoop(a, a.root, Null, k, NodeCap + 1)
                 IN IF par = -1 THEN Hang(a)
                    ELSE LET b == IF par # Null
                                  THEN LET c == IF k < a.data[par]
                                                THEN [a EXCEPT !.left[par] = newNode]
                                                ELSE [a EXCEPT !.right[par] = newNode]
                                       IN [c EXCEPT !.parent[newNode] = par]
                                  ELSE a
                         IN splay(b, newNode)

\* ---------------------------------------------------------------- delete
\* delete after its search (lines 30-41), after the found node is splayed
\* (lines 32-39), after the predecessor is chosen (lines 34-36) and after the
\* predecessor is splayed (lines 35-36)
deletePromote(b, node, max) ==
    IF b.st # "ok" THEN b
    ELSE [b EXCEPT !.right[max] = b.right[node], !.root = max]

deleteWithMax(a, node, max) ==
    IF max = -1 THEN Overflow(a)
    ELSE deletePromote(splay(a, max), node, max)

deleteAtRoot(a, node) ==
    IF a.st # "ok" THEN a
    ELSE IF a.left[node] # Null
         THEN deleteWithMax(a, node, findMax(a, a.left[node]))
         ELSE [a EXCEPT !.root = a.right[node]]

deleteFound(s) ==
    IF s.t.st # "ok" THEN s.t
    ELSE IF s.ret = Null THEN s.t
    ELSE deleteAtRoot(splay(s.t, s.ret), s.ret)

delete(t, k) == deleteFound(search(t, k))

\* --------------------------------------------------------------- inorder
\* TRUE when inorderHelper started at node recurses without end
RECURSIVE inorderDiverges(_, _, _)
inorderDiverges(t, node, fuel) ==
    IF node = Null THEN FALSE
    ELSE IF fuel = 0 THEN TRUE
    ELSE \/ inorderDiverges(t, t.left[node], fuel - 1)
         \/ inorderDiverges(t, t.right[node], fuel - 1)

RECURSIVE inorderHelper(_, _)
inorderHelper(t, node) ==
    IF node = Null THEN <<>>
    ELSE inorderHelper(t, t.left[node]) \o <<t.data[node]>>
             \o inorderHelper(t, t.right[node])

inorder(t) ==
    IF inorderDiverges(t, t.root, NodeCap + 1)
    THEN [t |-> Overflow(t), ret |-> <<>>]
    ELSE [t |-> t, ret |-> inorderHelper(t, t.root)]

getRoot(t) == t.root

\* nodes reachable from the root through left/right links
RECURSIVE ReachFrom(_, _)
ReachFrom(t, S) ==
    LET S2 == (S \cup {t.left[n] : n \in S} \cup {t.right[n] : n \in S}) \ {Null}
    IN IF S2 = S THEN S ELSE ReachFrom(t, S2)

Reach(t) == IF t.root = Null THEN {} ELSE ReachFrom(t, {t.root})

\* --------------------------------------------------------------- actions
Install(t) ==
    /\ root' = t.root
    /\ data' = t.data
    /\ left' = t.left
    /\ right' = t.right
    /\ parent' = t.parent
    /\ nalloc' = t.nalloc
    /\ status' = t.st

Init ==
    /\ root = Null
    /\ data = EmptyTree.data
    /\ left = EmptyTree.left
    /\ right = EmptyTree.right
    /\ parent = EmptyTree.parent
    /\ nalloc = 0
    /\ status = "ok"
    /\ keys = {}
    /\ op = [name |-> "new", arg |-> 0, ret |-> 0, had |-> FALSE]
    /\ pre = EmptyTree
    /\ calls = 0

DoInsert(k) ==
    /\ status = "ok"
    /\ Install(insert(Tree, k))
    /\ keys' = keys \cup {k}
    /\ op' = [name |-> "insert", arg |-> k, ret |-> 0, had |-> k \in keys]
    /\ pre' = Tree

DoDelete(k) ==
    /\ status = "ok"
    /\ Install(delete(Tree, k))
    /\ keys' = keys \ {k}
    /\ op' = [name |-> "delete", arg |-> k, ret |-> 0, had |-> k \in keys]
    /\ pre' = Tree

DoSearch(k) ==
    /\ status = "ok"
    /\ LET s == search(Tree, k)
       IN /\ Install(s.t)
          /\ op' = [name |-> "search", arg |-> k, ret |-> s.ret,
                  had |-> k \in keys]
    /\ pre' = Tree
    /\ UNCHANGED keys

DoInorder ==
    /\ status = "ok"
    /\ LET s == inorder(Tree)
       IN /\ Install(s.t)
          /\ op' = [name |-> "inorder", arg |-> 0, ret |-> s.ret, had |-> FALSE]
    /\ pre' = Tree
    /\ UNCHANGED keys

\* any sequence of at most MaxOps calls with keys 1..MaxKey that creates at
\* most MaxAlloc nodes; calls counts the calls made
Insert == \E k \in Keys :
             /\ (k \in keys \/ nalloc < MaxAlloc)
             /\ calls < MaxOps
             /\ DoInsert(k)
             /\ calls' = calls + 1
Delete == \E k \in Keys : calls < MaxOps /\ DoDelete(k) /\ calls' = calls + 1
Search == \E k \in Keys : calls < MaxOps /\ DoSearch(k) /\ calls' = calls + 1
Inorder == calls < MaxOps /\ DoInorder /\ calls' = calls + 1

Next == Insert \/ Delete \/ Search \/ Inorder

Spec == Init /\ [][Next]_vars

\* the test fixture: insert 1..AscN in ascending order, then at most MaxTail
\* further calls, which calls counts
AscBuild == /\ calls = 0
            /\ nalloc < AscN
            /\ DoInsert(nalloc + 1)
            /\ UNCHANGED calls
AscInsert == \E k \in AscKeys :
                /\ nalloc >= AscN /\ calls < MaxTail
                /\ DoInsert(k) /\ calls' = calls + 1
AscDelete == \E k \in AscKeys :
                /\ nalloc >= AscN /\ calls < MaxTail
                /\ DoDelete(k) /\ calls' = calls + 1
AscSearch == \E k \in AscKeys :
                /\ nalloc >= AscN /\ calls < MaxTail
                /\ DoSearch(k) /\ calls' = calls + 1
AscInorder == /\ nalloc >= AscN /\ calls < MaxTail
              /\ DoInorder /\ calls' = calls + 1

NextAsc == AscBuild \/ AscInsert \/ AscDelete \/ AscSearch \/ AscInorder

SpecAsc == Init /\ [][NextAsc]_vars


\* direct calls of the public primitives, on a node obtained from the tree
DoLeftRotate(n) ==
    /\ status = "ok"
    /\ Install(leftRotate(Tree, n))
    /\ op' = [name |-> "leftRotate", arg |-> n, ret |-> 0, had |-> FALSE]
    /\ pre' = Tree
    /\ UNCHANGED keys

DoRightRotate(n) ==
    /\ status = "ok"
    /\ Install(rightRotate(Tree, n))
    /\ op' = [name |-> "rightRotate", arg |-> n, ret |-> 0, had |-> FALSE]
    /\ pre' = Tree
    /\ UNCHANGED keys

DoSplay(n) ==
    /\ status = "ok"
    /\ Install(splay(Tree, n))
    /\ op' = [name |-> "splay", arg |-> n, ret |-> 0, had |-> FALSE]
    /\ pre' = Tree
    /\ UNCHANGED keys

DoFindMax ==
    /\ status = "ok"
    /\ root # Null
    /\ LET r == findMax(Tree, getRoot(Tree))
       IN /\ Install(IF r = -1 THEN Overflow(Tree) ELSE Tree)
          /\ op' = [name |-> "findMax", arg |-> root,
                    ret |-> IF r = -1 THEN Null ELSE r, had |-> FALSE]
    /\ pre' = Tree
    /\ UNCHANGED keys

DoFindMin ==
    /\ status = "ok"
    /\ root # Null
    /\ LET r == findMin(Tree, getRoot(Tree))
       IN /\ Install(IF r = -1 THEN Overflow(Tree) ELSE Tree)
          /\ op' = [name |-> "findMin", arg |-> root,
                    ret |-> IF r = -1 THEN Null ELSE r, had |-> FALSE]
    /\ pre' = Tree
    /\ UNCHANGED keys

\* insert and delete calls followed by calls of the primitives: at most
\* MaxPrimOps calls in all
PrimInsert == \E k \in Keys :
                 /\ (k \in keys \/ nalloc < MaxAlloc)
                 /\ calls < MaxPrimOps
                 /\ DoInsert(k)
                 /\ calls' = calls + 1
PrimDelete == \E k \in Keys :
                 calls < MaxPrimOps /\ DoDelete(k) /\ calls' = calls + 1
PrimLeftRotate == \E n \in Nodes :
                     /\ calls < MaxPrimOps
                     /\ n \in ReachFrom(Tree, {root} \ {Null})
                     /\ DoLeftRotate(n) /\ calls' = calls + 1
PrimRightRotate == \E n \in Nodes :
                      /\ calls < MaxPrimOps
                      /\ n \in ReachFrom(Tree, {root} \ {Null})
                      /\ DoRightRotate(n) /\ calls' = calls + 1
PrimSplay == \E n \in Nodes :
                /\ calls < MaxPrimOps
                /\ n \in ReachFrom(Tree, {root} \ {Null})
                /\ DoSplay(n) /\ calls' = calls + 1
PrimFindMax == calls < MaxPrimOps /\ DoFindMax /\ calls' = calls + 1
PrimFindMin == calls < MaxPrimOps /\ DoFindMin /\ calls' = calls + 1

NextPrim == \/ PrimInsert \/ PrimDelete \/ PrimLeftRotate \/ PrimRightRotate
            \/ PrimSplay \/ PrimFindMax \/ PrimFindMin

SpecPrim == Init /\ [][NextPrim]_vars

\* ------------------------------------------------------ derived notions

Range(s) == {s[i] : i \in 1..Len(s)}
StrictlyAscending(s) == \A i \in 1..(Len(s) - 1) : s[i] < s[i + 1]

\* number of child links of reachable nodes that point to n
InDegree(t, n) ==
    Cardinality({p \in Reach(t) : t.left[p] = n})
      + Cardinality({p \in Reach(t) : t.right[p] = n})

SameLinks(t, u) ==
    /\ t.root = u.root
    /\ t.left = u.left
    /\ t.right = u.right
    /\ t.parent = u.parent

\* nodes of the subtree hanging from n (n itself included), and its keys
Under(t, n) == IF n = Null THEN {} ELSE ReachFrom(t, {n})
KeysUnder(t, n) == {t.data[m] : m \in Under(t, n)}
MaxOf(S) == CHOOSE x \in S : \A y \in S : y <= x

\* ---------------------------------------------------------------- claims

\* C1: after any sequence of insert and delete calls, inorder() returns a
\* strictly ascending sequence whose elements are exactly the keys inserted
\* and not deleted since.
C1_InorderIsSortedKeySet ==
    status = "ok" =>
        LET r == inorder(Tree)
        IN /\ r.t.st = "ok"
           /\ StrictlyAscending(r.ret)
           /\ Range(r.ret) = keys

\* C2: parent consistency: every reachable node other than the root is
\* exactly one of its parent's two children, and every child link p -> n of
\* a reachable node p is answered by n.parent = p.
C2_ParentConsistency ==
    status = "ok" =>
        /\ \A n \in Reach(Tree) \ {root} :
              /\ parent[n] # Null
              /\ (left[parent[n]] = n) # (right[parent[n]] = n)
        /\ \A p \in Reach(Tree) :
              /\ left[p] # Null => parent[left[p]] = p
              /\ right[p] # Null => parent[right[p]] = p

\* C3: insert(x) returns and leaves the node holding x at the root, whether
\* x was present or not.
C3_InsertedKeyIsRoot ==
    op.name = "insert" =>
        /\ status = "ok"
        /\ root # Null
        /\ data[root] = op.arg

\* C4: after delete(x) has returned, search(x) returns null.
C4_DeleteThenSearchAbsent ==
    (op.name = "delete" /\ status = "ok") =>
        LET s == search(Tree, op.arg)
        IN s.t.st = "ok" /\ s.ret = Null

\* C5: every call of insert, delete, search and inorder returns.
C5_EveryCallTerminates == status = "ok"

\* C6: whenever the tree is non-empty the root has no parent.
C6_RootHasNoParent ==
    (status = "ok" /\ root # Null) => parent[root] = Null

\* C7: the child links reachable from the root form a tree: no cycle, and
\* every reachable node other than the root is the target of exactly one
\* child link.
C7_ChildLinksFormTree ==
    status = "ok" =>
        /\ ~inorderDiverges(Tree, root, NodeCap + 1)
        /\ \A n \in Reach(Tree) :
              InDegree(Tree, n) = IF n = root THEN 0 ELSE 1

\* C9: search changes neither the root nor any left, right or parent link.
C9_SearchIsPure ==
    (op.name = "search" /\ status = "ok") => SameLinks(Tree, pre)

C9_Witness ==
    /\ op.name = "search"
    /\ status = "ok"
    /\ op.ret # Null
    /\ op.ret # root

\* C10: search(k) of a present key leaves the node it returns at the root.
C10_SearchSplaysHitToRoot ==
    (op.name = "search" /\ op.ret # Null) =>
        /\ root = op.ret
        /\ data[root] = op.arg

\* C8: delete(x) of a present key: with x's node splayed to the root, if it
\* has a left subtree the new root holds the maximum key of that subtree,
\* keeps x's right subtree as its right subtree and the rest of the left
\* subtree as its left subtree; otherwise the new root is x's right child.
\* On the tree built from 1..10 in ascending order delete(5) leaves root 4.
C8_DeleteNewRootRule ==
    (op.name = "delete" /\ status = "ok" /\ search(pre, op.arg).ret # Null) =>
        LET x == search(pre, op.arg).ret
            a == splay(pre, x)
            lk == KeysUnder(a, a.left[x])
        IN /\ IF a.left[x] # Null
              THEN /\ root \in Under(a, a.left[x])
                   /\ data[root] = MaxOf(lk)
                   /\ right[root] = a.right[x]
                   /\ KeysUnder(Tree, right[root]) = KeysUnder(a, a.right[x])
                   /\ KeysUnder(Tree, left[root]) = lk \ {MaxOf(lk)}
              ELSE root = a.right[x]
           /\ (pre.nalloc = AscN /\ calls = 1 /\ op.arg = 5) => data[root] = 4

\* C11: after delete(x) of a present key whose node is not the
\* root, the root holds the key of the node that was x's parent before the
\* call; on the tree built from 1..10, delete(5) leaves root 6.
C11_DeleteSplaysParentToRoot ==
    (/\ op.name = "delete"
     /\ search(pre, op.arg).ret # Null
     /\ search(pre, op.arg).ret # pre.root) =>
        LET x == search(pre, op.arg).ret
        IN /\ status = "ok"
           /\ root # Null
           /\ data[root] = pre.data[pre.parent[x]]
           /\ (pre.nalloc = AscN /\ calls = 1 /\ op.arg = 5) => data[root] = 6

\* C12: search(k) returns a node holding k when k is among the keys inserted
\* and not deleted since, and returns null, without failing, when it is not.
C12_SearchFindsExactlyStoredKeys ==
    op.name = "search" =>
        /\ status = "ok"
        /\ IF op.had
           THEN op.ret # Null /\ data[op.ret] = op.arg
           ELSE op.ret = Null

\* C13: insert(x) of a stored key creates no node, leaves the set of stored
\* keys and the number of reachable nodes as they were and x's existing node
\* at the root; insert(x) of an absent key adds exactly one reachable node.
C13_InsertDuplicateAddsNothing ==
    op.name = "insert" =>
        /\ status = "ok"
        /\ IF op.had
           THEN /\ nalloc = pre.nalloc
                /\ KeysUnder(Tree, root) = KeysUnder(pre, pre.root)
                /\ Cardinality(Reach(Tree)) = Cardinality(Reach(pre))
                /\ root # Null
                /\ root = search(pre, op.arg).ret
           ELSE /\ nalloc = pre.nalloc + 1
                /\ Cardinality(Reach(Tree)) = Cardinality(Reach(pre)) + 1

\* C14: delete(x) of a key that is not stored returns normally and changes
\* neither the root nor any left, right or parent link.
C14_DeleteAbsentIsNoOp ==
    (op.name = "delete" /\ ~op.had) =>
        /\ status = "ok"
        /\ SameLinks(Tree, pre)

\* C15: a rotation whose required child is absent (leftRotate(n) with no
\* right child, rightRotate(n) with no left child) leaves the root and every
\* left, right and parent link unchanged, whether or not n has a parent.
C15_RotateWithoutChildIsNoOp ==
    (\/ op.name = "leftRotate" /\ pre.right[op.arg] = Null
     \/ op.name = "rightRotate" /\ pre.left[op.arg] = Null) =>
        /\ status = "ok"
        /\ SameLinks(Tree, pre)

\* the data-model invariants of a tree: BST order, parent-consistency,
\* root-consistency and acyclicity
BSTOrder(t) ==
    \A n \in Reach(t) :
        /\ \A k \in KeysUnder(t, t.left[n]) : k < t.data[n]
        /\ \A k \in KeysUnder(t, t.right[n]) : k > t.data[n]

ParentConsistent(t) ==
    \A n \in Reach(t) :
        /\ t.left[n] # Null => t.parent[t.left[n]] = n
        /\ t.right[n] # Null => t.parent[t.right[n]] = n

RootConsistent(t) == t.root # Null => t.parent[t.root] = Null

Acyclic(t) ==
    \A n \in Reach(t) :
        /\ InDegree(t, n) = (IF n = t.root THEN 0 ELSE 1)
        /\ n \notin ReachFrom(t, {t.left[n], t.right[n]} \ {Null})

WellFormed(t) ==
    /\ BSTOrder(t) /\ ParentConsistent(t) /\ RootConsistent(t) /\ Acyclic(t)

\* C16: on a tree that satisfies the data-model invariants, leftRotate(n)
\* with a right child and rightRotate(n) with a left child keep the four
\* invariants, the set of reachable nodes and the inorder sequence.
C16_RotationPreservesInvariants ==
    (/\ WellFormed(pre)
     /\ \/ op.name = "leftRotate" /\ pre.right[op.arg] # Null
        \/ op.name = "rightRotate" /\ pre.left[op.arg] # Null) =>
        /\ status = "ok"
        /\ WellFormed(Tree)
        /\ Reach(Tree) = Reach(pre)
        /\ inorder(Tree).ret = inorder(pre).ret

\* the stages of delete(k): the node found (line 29), the tree after that
\* node is splayed (line 31), the predecessor chosen (line 33) and the tree
\* after the predecessor is splayed (line 34)
deleteNode(t, k) == search(t, k).ret
deleteSplayed(t, k) == splay(search(t, k).t, deleteNode(t, k))
deleteMax(t, k) ==
    findMax(deleteSplayed(t, k), deleteSplayed(t, k).left[deleteNode(t, k)])
deletePromoted(t, k) == splay(deleteSplayed(t, k), deleteMax(t, k))

\* C17: after delete(x) of a stored key the removed node is not reachable
\* from the root, and no reachable node has a left, right or parent link
\* that points to it.
C17_RemovedNodeIsDetached ==
    (op.name = "delete" /\ op.had) =>
        /\ status = "ok"
        /\ deleteNode(pre, op.arg) # Null
        /\ deleteNode(pre, op.arg) \notin Reach(Tree)
        /\ \A m \in Reach(Tree) :
              /\ left[m] # deleteNode(pre, op.arg)
              /\ right[m] # deleteNode(pre, op.arg)
              /\ parent[m] # deleteNode(pre, op.arg)

\* C19: in delete(x), the splay of the predecessor changes no left, right
\* or parent link of x's node or of any node of x's right subtree.
C19_PredecessorSplayIsConfined ==
    (/\ op.name = "delete" /\ op.had
     /\ search(pre, op.arg).t.st = "ok"
     /\ deleteNode(pre, op.arg) # Null
     /\ deleteSplayed(pre, op.arg).st = "ok"
     /\ deleteSplayed(pre, op.arg).left[deleteNode(pre, op.arg)] # Null
     /\ deleteMax(pre, op.arg) # -1
     /\ deletePromoted(pre, op.arg).st = "ok") =>
        LET a == deleteSplayed(pre, op.arg)
            b == deletePromoted(pre, op.arg)
            node == deleteNode(pre, op.arg)
        IN \A m \in {node} \cup Under(a, a.right[node]) :
              /\ b.left[m] = a.left[m]
              /\ b.right[m] = a.right[m]
              /\ b.parent[m] = a.parent[m]

MinOf(S) == CHOOSE x \in S : \A y \in S : x <= y

\* C18: on every non-empty tree built by insert and delete calls,
\* findMax(getRoot()) returns the node holding the largest stored key and
\* findMin(getRoot()) the node holding the smallest stored key.
C18_FindMaxMinOfRoot ==
    (status = "ok" /\ root # Null /\ keys # {}) =>
        /\ findMax(Tree, getRoot(Tree)) # -1
        /\ data[findMax(Tree, getRoot(Tree))] = MaxOf(keys)
        /\ findMin(Tree, getRoot(Tree)) # -1
        /\ data[findMin(Tree, getRoot(Tree))] = MinOf(keys)

\* C20: for a node n reachable in a tree that satisfies the data-model
\* invariants, splay(n) returns with n as the root and n.parent absent, and
\* keeps the set of reachable nodes, the inorder sequence, BST order and
\* parent-consistency.
C20_SplayMovesNodeToRoot ==
    (op.name = "splay" /\ WellFormed(pre)) =>
        /\ status = "ok"
        /\ root = op.arg
        /\ parent[root] = Null
        /\ Reach(Tree) = Reach(pre)
        /\ inorder(Tree).ret = inorder(pre).ret
        /\ BSTOrder(Tree)
        /\ ParentConsistent(Tree)

\* C21: rightRotate is the mirror image of leftRotate: on a tree that
\* satisfies the data-model invariants, for n with l = n.left present,
\* rightRotate(n) sets n.left to l's former right child (whose parent becomes
\* n), l.parent to n's former parent, puts l in n's place under that parent
\* (or at the root), sets l.right = n and n.parent = l, and leaves l.left.
C21_RightRotateMirrorsLeftRotate ==
    (/\ op.name = "rightRotate"
     /\ WellFormed(pre)
     /\ pre.left[op.arg] # Null) =>
        LET n == op.arg
            l == pre.left[n]
            c == pre.right[l]
            p == pre.parent[n]
        IN /\ status = "ok"
           /\ left[n] = c
           /\ c # Null => parent[c] = n
           /\ parent[l] = p
           /\ IF p = Null THEN root = l
              ELSE IF pre.right[p] = n THEN right[p] = l ELSE left[p] = l
           /\ right[l] = n
           /\ parent[n] = l
           /\ left[l] = pre.left[l]

\* number of child links on the shortest path from the root to n, or -1
\* when n cannot be reached from the root
RECURSIVE depthFrom(_, _, _, _, _)
depthFrom(t, frontier, visited, d, n) ==
    IF n \in frontier THEN d
    ELSE IF frontier = {} THEN -1
    ELSE LET nxt == ({t.left[m] : m \in frontier}
                       \cup {t.right[m] : m \in frontier})
                    \ ({Null} \cup visited \cup frontier)
         IN depthFrom(t, nxt, visited \cup frontier, d + 1, n)

depth(t, n) == depthFrom(t, {t.root} \ {Null}, {}, 0, n)

\* the splay call of insert(k): the tree handed to splay (lines 75-77 for a
\* stored key, lines 86-109 for a new one) and the node splayed; node is
\* Null when insert returns without a splay
insertAttached(t, k) ==
    LET s == search(t, k) IN
    IF s.t.st # "ok" THEN [t |-> s.t, node |-> Null]
    ELSE IF s.ret # Null THEN [t |-> s.t, node |-> s.ret]
    ELSE LET newNode == s.t.nalloc + 1
             a == [s.t EXCEPT !.nalloc = newNode, !.data[newNode] = k,
                              !.left[newNode] = Null, !.right[newNode] = Null,
                              !.parent[newNode] = Null]
         IN IF a.root = Null THEN [t |-> a, node |-> Null]
            ELSE LET par == insertLoop(a, a.root, Null, k, NodeCap + 1)
                 IN IF par = -1 THEN [t |-> a, node |-> Null]
                    ELSE LET b == IF par # Null
                                  THEN LET c == IF k < a.data[par]
                                                THEN [a EXCEPT !.left[par] = newNode]
                                                ELSE [a EXCEPT !.right[par] = newNode]
                                       IN [c EXCEPT !.parent[newNode] = par]
                                  ELSE a
                         IN [t |-> b, node |-> newNode]

\* TRUE when every iteration of the loop of splay(node) lowers the depth of
\* node by 1 in the zig branch and by 2 in the other branches
RECURSIVE splayStepsReduceDepth(_, _, _, _)
splayStepsReduceDepth(t, node, rt, seen) ==
    IF t.root = node THEN TRUE
    ELSE IF t \in seen THEN FALSE
    ELSE LET u == splayStep(t, node, rt)
         IN /\ depth(u, node) =
                 depth(t, node) - (IF t.parent[node] = rt THEN 1 ELSE 2)
            /\ splayStepsReduceDepth(u, node, rt, seen \cup {t})

SplayReducesDepth(t, node) ==
    (t.st = "ok" /\ t.root # Null /\ node # Null /\ node # -1) =>
        splayStepsReduceDepth(t, node, t.root, {})

\* C22: in every splay call made by insert or delete, each iteration of the
\* loop lowers the depth of the splayed node by exactly 1 (zig) or exactly 2
\* (zig-zig, zig-zag), so no iteration leaves the tree unchanged.
C22_SplayStepReducesDepth ==
    /\ op.name = "insert" =>
          SplayReducesDepth(insertAttached(pre, op.arg).t,
                            insertAttached(pre, op.arg).node)
    /\ (op.name = "delete" /\ search(pre, op.arg).t.st = "ok") =>
          /\ SplayReducesDepth(search(pre, op.arg).t, deleteNode(pre, op.arg))
          /\ (/\ deleteNode(pre, op.arg) # Null
              /\ deleteSplayed(pre, op.arg).st = "ok"
              /\ deleteSplayed(pre, op.arg).left[deleteNode(pre, op.arg)] # Null) =>
                 SplayReducesDepth(deleteSplayed(pre, op.arg),
                                   deleteMax(pre, op.arg))

\* the rotations one iteration of the loop of splay performs, in order, each
\* with its direction and the node it is applied to; rt is the root
\* captured on entry
splayPlan(t, node, rt) ==
    IF t.parent[node] = rt
    THEN IF node = t.left[rt]
         THEN <<[dir |-> "right", at |-> rt]>>
         ELSE <<[dir |-> "left", at |-> rt]>>
    ELSE LET p == t.parent[node]
             g == IF p # Null THEN t.parent[p] ELSE Null
         IN IF p # Null /\ g # Null /\ p = t.left[g]
            THEN IF node = t.left[p]
                 THEN <<[dir |-> "right", at |-> g], [dir |-> "right", at |-> p]>>
                 ELSE <<[dir |-> "left", at |-> p], [dir |-> "right", at |-> g]>>
            ELSE IF p # Null /\ g # Null /\ p = t.right[g]
                 THEN IF node = t.right[p]
                      THEN <<[dir |-> "left", at |-> g], [dir |-> "left", at |-> p]>>
                      ELSE <<[dir |-> "right", at |-> p], [dir |-> "left", at |-> g]>>
                 ELSE <<>>

\* the tree after the rotations of a plan are applied in order
RECURSIVE applyPlan(_, _)
applyPlan(t, plan) ==
    IF plan = <<>> THEN t
    ELSE applyPlan(IF Head(plan).dir = "left"
                   THEN leftRotate(t, Head(plan).at)
                   ELSE rightRotate(t, Head(plan).at),
                   Tail(plan))

\* the rule of the three cases for one iteration on tree t
PlanObeysCases(t, node, plan) ==
    /\ Len(plan) = 1 =>
          /\ t.parent[node] = t.root
          /\ plan[1].at = t.root
    /\ Len(plan) = 2 =>
          LET p == t.parent[node]
              g == t.parent[p]
          IN IF plan[1].dir = plan[2].dir
             THEN plan[1].at = g /\ plan[2].at = p
             ELSE plan[1].at = p /\ plan[2].at = g

RECURSIVE splayStepsObeyCases(_, _, _, _)
splayStepsObeyCases(t, node, rt, seen) ==
    IF t.root = node \/ t \in seen THEN TRUE
    ELSE /\ applyPlan(t, splayPlan(t, node, rt)) = splayStep(t, node, rt)
         /\ PlanObeysCases(t, node, splayPlan(t, node, rt))
         /\ splayStepsObeyCases(splayStep(t, node, rt), node, rt, seen \cup {t})

SplayObeysCases(t, node) ==
    (t.st = "ok" /\ t.root # Null /\ node # Null /\ node # -1) =>
        splayStepsObeyCases(t, node, t.root, {})

\* C23: in every splay call, a single rotation (zig) is done only when the
\* node's parent is the tree's current root; a zig-zig rotates the
\* grandparent and then the parent in the same direction; a zig-zag rotates
\* the parent and then the grandparent in opposite directions.
C23_SplayRotationOrder ==
    /\ op.name = "splay" => SplayObeysCases(pre, op.arg)
    /\ op.name = "insert" =>
          SplayObeysCases(insertAttached(pre, op.arg).t,
                          insertAttached(pre, op.arg).node)
    /\ (op.name = "delete" /\ search(pre, op.arg).t.st = "ok") =>
          /\ SplayObeysCases(search(pre, op.arg).t, deleteNode(pre, op.arg))
          /\ (/\ deleteNode(pre, op.arg) # Null
              /\ deleteSplayed(pre, op.arg).st = "ok"
              /\ deleteSplayed(pre, op.arg).left[deleteNode(pre, op.arg)] # Null) =>
                 SplayObeysCases(deleteSplayed(pre, op.arg),
                                 deleteMax(pre, op.arg))

\* C24: in delete(x) with a left subtree, when max.right is overwritten
\* (line 35) max.right is the removed node and the removed node has no left
\* child, so every key reachable from max before the overwrite, x excepted,
\* is still reachable from the new root.
C24_OverwriteLosesOnlyRemovedKey ==
    (/\ op.name = "delete" /\ op.had
     /\ search(pre, op.arg).t.st = "ok"
     /\ deleteNode(pre, op.arg) # Null
     /\ deleteSplayed(pre, op.arg).st = "ok"
     /\ deleteSplayed(pre, op.arg).left[deleteNode(pre, op.arg)] # Null
     /\ deleteMax(pre, op.arg) # -1
     /\ deletePromoted(pre, op.arg).st = "ok") =>
        LET b == deletePromoted(pre, op.arg)
            node == deleteNode(pre, op.arg)
            max == deleteMax(pre, op.arg)
        IN /\ b.right[max] = node
           /\ b.left[node] = Null
           /\ KeysUnder(b, max) \ {op.arg} \subseteq KeysUnder(Tree, root)

\* ------------------------------------------------- the shipped build
\* dist/SplayTree/SplayTree.js differs from the source in rightRotate
\* (line 167) and in search (line 204); leftRotate, findMax and the descents
\* are the same text and are shared
dist_rightRotate(t, node) ==
    LET newParent == t.left[node]
        t1 == IF newParent # Null
              THEN LET a == [t EXCEPT !.left[node] = t.right[newParent]]
                       b == IF a.right[newParent] # Null
                            THEN [a EXCEPT !.parent[a.right[newParent]] = node]
                            ELSE a
                   IN [b EXCEPT !.parent[newParent] = b.parent[node]]
              ELSE t
        t2 == IF t1.parent[node] = Null
              THEN [t1 EXCEPT !.root = newParent]
              ELSE IF node = t1.right[t1.parent[node]]
                   THEN [t1 EXCEPT !.right[t1.parent[node]] = newParent]
                   ELSE [t1 EXCEPT !.left[t1.parent[node]] = newParent]
    IN IF newParent # Null
       THEN LET c == [t2 EXCEPT !.right[newParent] = node]
            IN [c EXCEPT !.parent[node] = newParent]
       ELSE t2

dist_splayStep(t, node, rt) ==
    IF t.parent[node] = rt
    THEN IF node = t.left[rt] THEN dist_rightRotate(t, rt) ELSE leftRotate(t, rt)
    ELSE LET p == t.parent[node]
             g == IF p # Null THEN t.parent[p] ELSE Null
         IN IF p # Null /\ g # Null /\ p = t.left[g]
            THEN IF node = t.left[p]
                 THEN dist_rightRotate(dist_rightRotate(t, g), p)
                 ELSE dist_rightRotate(leftRotate(t, p), g)
            ELSE IF p # Null /\ g # Null /\ p = t.right[g]
                 THEN IF node = t.right[p]
                      THEN leftRotate(leftRotate(t, g), p)
                      ELSE leftRotate(dist_rightRotate(t, p), g)
                 ELSE t

RECURSIVE dist_splayLoop(_, _, _, _)
dist_splayLoop(t, node, rt, seen) ==
    IF t.root = node THEN t
    ELSE IF t \in seen THEN Hang(t)
    ELSE dist_splayLoop(dist_splayStep(t, node, rt), node, rt, seen \cup {t})

dist_splay(t, node) ==
    IF t.st # "ok" THEN t
    ELSE IF t.root = Null THEN t
    ELSE dist_splayLoop(t, node, t.root, {})

dist_search(t, k) ==
    IF t.st # "ok" THEN [t |-> t, ret |-> Null]
    ELSE LET r == searchLoop(t, t.root, k, NodeCap + 1)
         IN IF r = -1 THEN [t |-> Hang(t), ret |-> Null]
            ELSE IF r # Null THEN [t |-> dist_splay(t, r), ret |-> r]
            ELSE [t |-> t, ret |-> Null]

dist_insert(t, k) ==
    LET s == dist_search(t, k) IN
    IF s.t.st # "ok" THEN s.t
    ELSE IF s.ret # Null THEN dist_splay(s.t, s.ret)
    ELSE LET newNode == s.t.nalloc + 1
             a == [s.t EXCEPT !.nalloc = newNode, !.data[newNode] = k,
                              !.left[newNode] = Null, !.right[newNode] = Null,
                              !.parent[newNode] = Null]
         IN IF a.root = Null THEN [a EXCEPT !.root = newNode]
            ELSE LET par == insertLoop(a, a.root, Null, k, NodeCap + 1)
                 IN IF par = -1 THEN Hang(a)
                    ELSE LET b == IF par # Null
                                  THEN LET c == IF k < a.data[par]
                                                THEN [a EXCEPT !.left[par] = newNode]
                                                ELSE [a EXCEPT !.right[par] = newNode]
                                       IN [c EXCEPT !.parent[newNode] = par]
                                  ELSE a
                         IN dist_splay(b, newNode)

dist_delete(t, k) ==
    LET s == dist_search(t, k) IN
    IF s.t.st # "ok" THEN s.t
    ELSE IF s.ret = Null THEN s.t
    ELSE LET node == s.ret
             a == dist_splay(s.t, node)
         IN IF a.st # "ok" THEN a
            ELSE IF a.left[node] # Null
                 THEN LET max == findMax(a, a.left[node])
                      IN IF max = -1 THEN Overflow(a)
                         ELSE LET b == dist_splay(a, max)
                              IN IF b.st # "ok" THEN b
                                 ELSE LET c == [b EXCEPT !.right[max] = b.right[node]]
                                      IN [c EXCEPT !.root = max]
                 ELSE [a EXCEPT !.root = a.right[node]]

\* C25: the shipped build and the source are the same program: from every
\* tree both have reached, each insert, delete, search, leftRotate and
\* rightRotate call returns the same result and ends in the same root and
\* the same left, right and parent links in both.
C25_DistEqualsSource ==
    status = "ok" =>
        /\ \A k \in Keys :
              /\ dist_insert(Tree, k) = insert(Tree, k)
              /\ dist_delete(Tree, k) = delete(Tree, k)
              /\ dist_search(Tree, k) = search(Tree, k)
        /\ \A n \in Reach(Tree) :
              dist_rightRotate(Tree, n) = rightRotate(Tree, n)

====
